---- MODULE Spec2Model ----
(***************************************************************************)
(* Model of the portfolio backend: the blueprint package (contact.py,      *)
(* newsletter.py, resume.py registered by __init__.py) and the single-file *)
(* application app.py.  A run is one deployment of one of the two          *)
(* applications; each action is one HTTP request handled to completion     *)
(* (rate-limit decorator, handler body, response).                         *)
(***************************************************************************)
EXTENDS Integers, Sequences, FiniteSets, TLC

\* ------------------------------------------------------------------ bounds
MaxReq == 2        \* requests handled in a run of Spec
MaxReqRL == 23     \* requests handled in a run of SpecRL
MaxTicksRL == 11   \* clock advances in a run of SpecRL
MaxOther == 1      \* routes a client other than c1 requests in SpecRL
MaxConc == 3       \* subscribe requests in flight in a run of SpecConc

\* ------------------------------------------------------- program constants
ContactPerMinute == 1
ContactPerHour == 10
SubscribePerHour == 20
ResumePerHour == 5
ResumePerDay == 20
AppResumePerDay == 5
AppContactPerHour == 10
Minute == 60
Hour == 3600
Day == 86400

\* ------------------------------------------------------------ request data
\* Field values are character sequences; <<>> is the empty string.
Keys == {"name", "email", "message", "subject"}

NameA == <<"A">>
MsgHi == <<"h", "i">>
SubjS == <<"S">>
NoSubject == <<"No Subject">>
EmailNoAt == <<"a", "b">>
EmailNoDot == <<"a", ".", "b", "@", "c">>
EmailOne == <<"a", "@", "b", ".", "c">>
EmailTwo == <<"d", "@", "e", ".", "f">>

FieldVals(k) ==
  CASE k = "name" -> {<<>>, NameA}
    [] k = "email" -> {<<>>, EmailNoAt, EmailNoDot, EmailOne, EmailTwo}
    [] k = "message" -> {MsgHi}
    [] k = "subject" -> {SubjS}

\* The JSON objects a client may post (Python dicts: a key may be absent).
Entry(k) == {<<>>} \cup {[x \in {k} |-> v] : v \in FieldVals(k)}
Dicts ==
  {n @@ e @@ m @@ s : n \in Entry("name"), e \in Entry("email"),
                      m \in Entry("message"), s \in Entry("subject")}

\* request.get_json(): None, or the posted object.
JsonNone == [isNone |-> TRUE, d |-> <<>>]
Json(d) == [isNone |-> FALSE, d |-> d]
Bodies == {JsonNone} \cup {Json(d) : d \in Dicts}
Unread == [isNone |-> TRUE, d |-> <<"unread">>]

\* Python truthiness of data (None and {} are falsy) and of data.get(k).
NotData(data) == data.isNone \/ DOMAIN data.d = {}
Falsy(d, k) == k \notin DOMAIN d \/ d[k] = <<>>

Clients == {"c1", "c2"}
Visitors == {"c1"}      \* the clients of a run of Spec

\* ------------------------------------------------------------------- state
VARIABLES
  app,                    \* which application is deployed: "package" or "app_py"
  db_up,                  \* FALSE when the application's db handle is None
  recipient_set,          \* Config.RECIPIENT_EMAIL is configured
  now,                    \* wall clock, in seconds
  hits,                   \* the limiter's in-memory window counters
  contact_form,           \* the three collections, in insertion order
  newsletter_subscribers,
  resume_requests,
  req,                    \* the request handled last
  resp,                   \* its response
  events,                 \* its side effects, in the order they happened
  nreq,                   \* requests handled so far
  nticks,                 \* clock advances so far
  inflight                \* the subscribe requests being handled concurrently

vars == <<app, db_up, recipient_set, now, hits, contact_form,
          newsletter_subscribers, resume_requests, req, resp, events,
          nreq, nticks, inflight>>

Handlers == {"handle_contact_form", "handle_subscription",
             "handle_resume_request", "request_resume", "contact_form"}

\* --------------------------------------------------------------- validator
\* utils.is_valid_email: local-part "@" domain-part "." tld-part.
IsValidEmail(s) ==
  \E i, j \in 1..Len(s) :
     /\ s[i] = "@" /\ i > 1
     /\ s[j] = "." /\ j > i + 1 /\ j < Len(s)

EmailError(d) ==
  IF Falsy(d, "email") THEN {"required"}
  ELSE IF ~IsValidEmail(d["email"]) THEN {"format"}
  ELSE {}

RequiredError(d, k) == IF Falsy(d, k) THEN {"required"} ELSE {}

\* The errors dict of a handler: field |-> message, for the fields in error.
ErrorsOf(d, fields) ==
  LET e(k) == IF k = "email" THEN EmailError(d) ELSE RequiredError(d, k)
  IN [k \in {f \in fields : e(f) # {}} |-> CHOOSE m \in e(k) : TRUE]

ContactErrors(d) == ErrorsOf(d, {"name", "email", "message"})
SubscriptionErrors(d) == ErrorsOf(d, {"email"})
ResumeErrors(d) == ErrorsOf(d, {"name", "email"})

\* ------------------------------------------------------------ rate limiter
Limit(amount, per) == [amount |-> amount, per |-> per]

\* The decorators' policies, smallest window first.
Limits_NoMinuteLimit(h) ==
  CASE h = "handle_contact_form" ->
         <<Limit(ContactPerHour, Minute), Limit(ContactPerHour, Hour)>>
    [] h = "handle_subscription" -> <<Limit(SubscribePerHour, Hour)>>
    [] h = "handle_resume_request" ->
         <<Limit(ResumePerHour, Hour), Limit(ResumePerDay, Day)>>
    [] h = "request_resume" -> <<Limit(AppResumePerDay, Day)>>
    [] h = "contact_form" -> <<Limit(AppContactPerHour, Hour)>>

Limits(h) ==
  CASE h = "handle_contact_form" ->
         <<Limit(ContactPerMinute, Minute), Limit(ContactPerHour, Hour)>>
    [] h = "handle_subscription" -> <<Limit(SubscribePerHour, Hour)>>
    [] h = "handle_resume_request" ->
         <<Limit(ResumePerHour, Hour), Limit(ResumePerDay, Day)>>
    [] h = "request_resume" -> <<Limit(AppResumePerDay, Day)>>
    [] h = "contact_form" -> <<Limit(AppContactPerHour, Hour)>>

LimitKeys ==
  {k \in Clients \X Handlers \X (1..2) : k[3] <= Len(Limits(k[2]))}

\* One window counter after a hit at time t: an expired window restarts.
HitCounter(cnt, per, t) ==
  IF cnt.expiry <= t
    THEN [count |-> 1, expiry |-> t + per]
    ELSE [count |-> cnt.count + 1, expiry |-> cnt.expiry]

\* The limiter's check of a request: each limit of the route is hit in turn,
\* stopping at the first one exceeded.
RECURSIVE HitLimits(_, _, _, _, _)
HitLimits(h, c, r, i, t) ==
  IF i > Len(Limits(r)) THEN [ok |-> TRUE, hits |-> h]
  ELSE LET k == <<c, r, i>>
           cnt == HitCounter(h[k], Limits(r)[i].per, t)
           h2 == [h EXCEPT ![k] = cnt]
       IN IF cnt.count > Limits(r)[i].amount
            THEN [ok |-> FALSE, hits |-> h2]
            ELSE HitLimits(h2, c, r, i + 1, t)

\* --------------------------------------------------------------- responses
NoDetails == <<>>
Response(status, success, error, details) ==
  [status |-> status, success |-> success, error |-> error,
   details |-> details]

RateLimited == Response(429, "absent", "Rate limit exceeded", NoDetails)
Unhandled == Response(500, "absent", "unhandled exception", NoDetails)
NoResponse == Response(0, "absent", "absent", NoDetails)

\* ---------------------------------------------------------------- notifier
\* utils.send_email returns (success, status_message) or raises; the
\* outcome of the SMTP exchange is an input of the request.
MailOutcomes == {"sent", "failed", "raised"}
SendEmail(mail) ==
  [success |-> mail = "sent",
   status_message |-> IF mail = "sent" THEN <<"ok">> ELSE <<"smtp error">>]
EmailEvent(mail) ==
  CASE mail = "sent" -> "email_sent"
    [] mail = "failed" -> "email_failed"
    [] mail = "raised" -> "email_raised"

\* app.py's senders catch every exception and return a boolean.
AppMailOutcomes == {"sent", "failed"}
SendEmailWithResume(mail) == mail = "sent"
SendContactEmail(mail) == mail = "sent"

\* insert_one returns or raises; find_one returns or raises.
StoreOutcomes == {"ok", "raise"}

\* ------------------------------------------------------- handlers (bodies)
\* What a handler body does with a request once the limiter admitted it:
\* the body as read, the response, the side effects in order, and the
\* record inserted (a sequence of length 0 or 1).
Out(data, r, ev, ins) ==
  [data |-> data, resp |-> r, events |-> ev, insert |-> ins]

\* contact.py
ContactMessage(d, c, t) ==
  [name |-> d["name"], email |-> d["email"],
   subject |-> IF "subject" \in DOMAIN d THEN d["subject"] ELSE NoSubject,
   message |-> d["message"], timestamp |-> t, ip_address |-> c]

ContactBody(c, data, ins, mail, t) ==
  IF ~db_up THEN
    Out(Unread, Response(503, "absent", "Database connection not available",
                         NoDetails), <<>>, <<>>)
  ELSE IF NotData(data) THEN
    Out(data, Response(400, "absent", "Missing JSON in request body",
                       NoDetails), <<>>, <<>>)
  ELSE IF DOMAIN ContactErrors(data.d) # {} THEN
    Out(data, Response(400, "absent", "Validation failed",
                       ContactErrors(data.d)), <<>>, <<>>)
  ELSE IF ins = "raise" THEN
    Out(data, Response(500, "absent",
                       "An internal error occurred while saving the message.",
                       NoDetails), <<"insert_failed">>, <<>>)
  ELSE LET message == ContactMessage(data.d, c, t)
           created == Response(201, "true", "absent", NoDetails)
       IN IF ~recipient_set THEN
            Out(data, created, <<"insert">>, <<message>>)
          ELSE IF mail = "raised" THEN
            \* only PyMongoError is caught around send_email
            Out(data, Unhandled, <<"insert", EmailEvent(mail)>>, <<message>>)
          ELSE
            Out(data, created, <<"insert", EmailEvent(mail)>>, <<message>>)

\* newsletter.py
Subscribed_NoLookup(email) == FALSE

Subscribed(email) ==
  \E i \in 1..Len(newsletter_subscribers) :
     newsletter_subscribers[i].email = email

SubscriptionBody(c, data, find, ins, t) ==
  IF ~db_up THEN
    Out(Unread, Response(503, "absent", "Database connection not available",
                         NoDetails), <<>>, <<>>)
  ELSE IF NotData(data) THEN
    Out(data, Response(400, "absent", "Missing JSON in request body",
                       NoDetails), <<>>, <<>>)
  ELSE IF DOMAIN SubscriptionErrors(data.d) # {} THEN
    Out(data, Response(400, "absent", "Validation failed",
                       SubscriptionErrors(data.d)), <<>>, <<>>)
  ELSE LET failed == Response(500, "absent", "An internal error occurred.",
                              NoDetails)
       IN IF find = "raise" THEN
            Out(data, failed, <<"find_failed">>, <<>>)
          ELSE IF Subscribed(data.d["email"]) THEN
            Out(data, Response(200, "true", "absent", NoDetails),
                <<"find">>, <<>>)
          ELSE IF ins = "raise" THEN
            Out(data, failed, <<"find", "insert_failed">>, <<>>)
          ELSE
            Out(data, Response(201, "true", "absent", NoDetails),
                <<"find", "insert">>,
                <<[email |-> data.d["email"], timestamp |-> t]>>)

\* newsletter.py under a concurrent server: find_one and insert_one are two
\* calls to the database, and other requests may run between them.
Threads == 1..MaxConc
Idle ==
  [pc |-> "idle", client |-> "none", data |-> Unread, found |-> FALSE,
   resp |-> NoResponse, events |-> <<>>]

\* What follows find_one: the early return of an already subscribed email.
AfterFind_NoReturn(found) == "insert"

AfterFind(found) == IF found THEN "done" ELSE "insert"

\* The handler up to and including find_one, for a request the limiter
\* admitted.
SubscriptionCheck(c, data, find) ==
  LET done(d, r, ev) ==
        [pc |-> "done", client |-> c, data |-> d, found |-> FALSE,
         resp |-> r, events |-> ev]
  IN
  IF ~db_up THEN
    done(Unread, Response(503, "absent", "Database connection not available",
                          NoDetails), <<>>)
  ELSE IF NotData(data) THEN
    done(data, Response(400, "absent", "Missing JSON in request body",
                        NoDetails), <<>>)
  ELSE IF DOMAIN SubscriptionErrors(data.d) # {} THEN
    done(data, Response(400, "absent", "Validation failed",
                        SubscriptionErrors(data.d)), <<>>)
  ELSE IF find = "raise" THEN
    done(data, Response(500, "absent", "An internal error occurred.",
                        NoDetails), <<"find_failed">>)
  ELSE LET found == Subscribed(data.d["email"]) IN
       [pc |-> AfterFind(found), client |-> c, data |-> data,
        found |-> found,
        resp |-> IF AfterFind(found) = "done"
                   THEN Response(200, "true", "absent", NoDetails)
                   ELSE NoResponse,
        events |-> <<"find">>]

\* insert_one and the response that follows it.
SubscriptionInsert(r, ins) ==
  IF ins = "raise"
    THEN [r EXCEPT !.pc = "done",
                   !.resp = Response(500, "absent",
                                     "An internal error occurred.", NoDetails),
                   !.events = Append(@, "insert_failed")]
    ELSE [r EXCEPT !.pc = "done",
                   !.resp = Response(201, "true", "absent", NoDetails),
                   !.events = Append(@, "insert")]

\* resume.py
ResumeRecord(name, email, t, sent) ==
  LET pending == [name |-> name, email |-> email, timestamp |-> t,
                  email_status |-> "pending"]
      status == IF sent.success THEN "sent" ELSE "failed"
      base == [pending EXCEPT !.email_status = status]
  IN IF ~sent.success
       THEN [k \in DOMAIN base \cup {"email_error"} |->
               IF k = "email_error" THEN sent.status_message ELSE base[k]]
       ELSE base

ResumeResponse_Always200(success) ==
  Response(200, "true", "absent", NoDetails)

ResumeResponse(success) ==
  IF success THEN Response(200, "true", "absent", NoDetails)
  ELSE Response(500, "false", "absent", NoDetails)

ResumeBody(c, data, ins, mail, t) ==
  IF ~db_up THEN
    Out(Unread, Response(503, "absent", "Database connection not available",
                         NoDetails), <<>>, <<>>)
  ELSE IF data.isNone THEN
    \* data.get on None raises before the "if not data" check
    Out(data, Unhandled, <<>>, <<>>)
  ELSE IF NotData(data) THEN
    Out(data, Response(400, "absent", "Missing JSON in request body",
                       NoDetails), <<>>, <<>>)
  ELSE IF DOMAIN ResumeErrors(data.d) # {} THEN
    Out(data, Response(400, "absent", "Validation failed",
                       ResumeErrors(data.d)), <<>>, <<>>)
  ELSE LET failed == Response(500, "absent",
                              "An internal server error occurred.", NoDetails)
           sent == SendEmail(mail)
           record == ResumeRecord(data.d["name"], data.d["email"], t, sent)
       IN IF mail = "raised" THEN
            Out(data, failed, <<EmailEvent(mail)>>, <<>>)
          ELSE IF ins = "raise" THEN
            Out(data, failed, <<EmailEvent(mail), "insert_failed">>, <<>>)
          ELSE
            Out(data, ResumeResponse(sent.success),
                <<EmailEvent(mail), "insert">>, <<record>>)

\* app.py
AppResumeBody(c, data, ins, mail, t) ==
  IF ~db_up THEN
    Out(Unread, Response(500, "absent",
                         "Server error: Database not available.", NoDetails),
        <<>>, <<>>)
  ELSE IF data.isNone THEN
    \* data.get on None raises; the 500 error handler answers
    Out(data, Response(500, "absent",
                       "An internal server error occurred. Please try again later.",
                       NoDetails), <<>>, <<>>)
  ELSE IF Falsy(data.d, "name") \/ Falsy(data.d, "email") THEN
    Out(data, Response(400, "absent", "Name and Email are required.",
                       NoDetails), <<>>, <<>>)
  ELSE IF ins = "raise" THEN
    Out(data, Response(500, "absent",
                       "An error occurred while processing your resume request.",
                       NoDetails), <<"insert_failed">>, <<>>)
  ELSE LET record == [name |-> data.d["name"], email |-> data.d["email"],
                      timestamp |-> t]
       IN IF SendEmailWithResume(mail) THEN
            Out(data, Response(200, "absent", "absent", NoDetails),
                <<"insert", EmailEvent(mail)>>, <<record>>)
          ELSE
            Out(data, Response(202, "absent", "absent", NoDetails),
                <<"insert", EmailEvent(mail)>>, <<record>>)

AppContactBody(c, data, mail, t) ==
  IF NotData(data) THEN
    Out(data, Response(400, "absent", "Invalid JSON data in request.",
                       NoDetails), <<>>, <<>>)
  ELSE IF \E k \in Keys : Falsy(data.d, k) THEN
    Out(data, Response(400, "absent",
                       "All fields (Name, Email, Subject, Message) are required.",
                       NoDetails), <<>>, <<>>)
  ELSE IF SendContactEmail(mail) THEN
    Out(data, Response(200, "absent", "absent", NoDetails),
        <<EmailEvent(mail)>>, <<>>)
  ELSE
    Out(data, Response(500, "absent",
                       "Sorry, there was an error sending your message. Please try again later.",
                       NoDetails), <<EmailEvent(mail)>>, <<>>)

\* ----------------------------------------------------------------- actions
\* A request to handler h from client c: the limiter decorator runs first,
\* and the handler body only when it admits the request.  coll is the
\* collection the handler inserts into.
Serve(h, c, body, coll) ==
  LET lim == HitLimits(hits, c, h, 1, now) IN
  IF lim.ok
    THEN [hits |-> lim.hits, data |-> body.data, resp |-> body.resp,
          events |-> body.events, coll |-> coll \o body.insert]
    ELSE [hits |-> lim.hits, data |-> Unread, resp |-> RateLimited,
          events |-> <<>>, coll |-> coll]

Served(h, c, s) ==
  /\ hits' = s.hits
  /\ req' = [handler |-> h, client |-> c, data |-> s.data]
  /\ resp' = s.resp
  /\ events' = s.events
  /\ nreq' = nreq + 1
  /\ UNCHANGED <<app, db_up, recipient_set, now, nticks, inflight>>

handle_contact_form(c, data, ins, mail) ==
  /\ app = "package"
  /\ \E s \in {Serve("handle_contact_form", c,
                     ContactBody(c, data, ins, mail, now), contact_form)} :
       /\ Served("handle_contact_form", c, s)
       /\ contact_form' = s.coll
  /\ UNCHANGED <<newsletter_subscribers, resume_requests>>

handle_subscription(c, data, find, ins) ==
  /\ app = "package"
  /\ \E s \in {Serve("handle_subscription", c,
                     SubscriptionBody(c, data, find, ins, now),
                     newsletter_subscribers)} :
       /\ Served("handle_subscription", c, s)
       /\ newsletter_subscribers' = s.coll
  /\ UNCHANGED <<contact_form, resume_requests>>

handle_resume_request(c, data, ins, mail) ==
  /\ app = "package"
  /\ \E s \in {Serve("handle_resume_request", c,
                     ResumeBody(c, data, ins, mail, now), resume_requests)} :
       /\ Served("handle_resume_request", c, s)
       /\ resume_requests' = s.coll
  /\ UNCHANGED <<contact_form, newsletter_subscribers>>

request_resume(c, data, ins, mail) ==
  /\ app = "app_py"
  /\ \E s \in {Serve("request_resume", c,
                     AppResumeBody(c, data, ins, mail, now), resume_requests)} :
       /\ Served("request_resume", c, s)
       /\ resume_requests' = s.coll
  /\ UNCHANGED <<contact_form, newsletter_subscribers>>

contact_form_route(c, data, mail) ==
  /\ app = "app_py"
  /\ \E s \in {Serve("contact_form", c, AppContactBody(c, data, mail, now),
                     <<>>)} :
       Served("contact_form", c, s)
  /\ UNCHANGED <<contact_form, newsletter_subscribers, resume_requests>>

\* Time passes between requests.
Tick(d) ==
  /\ now' = now + d
  /\ nticks' = nticks + 1
  /\ UNCHANGED <<app, db_up, recipient_set, hits, contact_form,
                 newsletter_subscribers, resume_requests, req, resp, events,
                 nreq, inflight>>

\* ------------------------------------------------------------ specification
\* After create_app(): the collections are those of a fresh database, the
\* limiter's memory storage is empty, and no request has been handled.
Init ==
  /\ app \in {"package", "app_py"}
  /\ db_up \in BOOLEAN
  /\ recipient_set \in (IF app = "package" THEN BOOLEAN ELSE {FALSE})
  /\ now = 0
  /\ hits = [k \in LimitKeys |-> [count |-> 0, expiry |-> 0]]
  /\ contact_form = <<>>
  /\ newsletter_subscribers = <<>>
  /\ resume_requests = <<>>
  /\ req = [handler |-> "none", client |-> "none", data |-> Unread]
  /\ resp = NoResponse
  /\ events = <<>>
  /\ nreq = 0
  /\ nticks = 0
  /\ inflight = [t \in Threads |-> Idle]

\* The storage and SMTP outcomes are inputs only of a request that reaches
\* them; for any other request a single value stands for all.
Reaches(errors, data) ==
  db_up /\ ~NotData(data) /\ DOMAIN errors = {}
StoreFor(reaches) == IF reaches THEN StoreOutcomes ELSE {"ok"}
MailFor(reaches, outcomes) == IF reaches THEN outcomes ELSE {"sent"}

ContactRequest(cs, bodies) ==
  \E c \in cs, data \in bodies :
    LET r == Reaches(ContactErrors(data.d), data) IN
    \E ins \in StoreFor(r), mail \in MailFor(r /\ recipient_set, MailOutcomes) :
      handle_contact_form(c, data, ins, mail)

SubscriptionRequest(cs, bodies) ==
  \E c \in cs, data \in bodies :
    LET r == Reaches(SubscriptionErrors(data.d), data) IN
    \E find \in StoreFor(r), ins \in StoreFor(r) :
      handle_subscription(c, data, find, ins)

ResumeRequest(cs, bodies) ==
  \E c \in cs, data \in bodies :
    LET r == Reaches(ResumeErrors(data.d), data) IN
    \E ins \in StoreFor(r), mail \in MailFor(r, MailOutcomes) :
      handle_resume_request(c, data, ins, mail)

AppResumeRequest(cs, bodies) ==
  \E c \in cs, data \in bodies :
    LET r == Reaches(ErrorsOf(data.d, {"name", "email"}), data) IN
    \E ins \in StoreFor(r), mail \in MailFor(r, AppMailOutcomes) :
      request_resume(c, data, ins, mail)

AppContactRequest(cs, bodies) ==
  \E c \in cs, data \in bodies, mail \in AppMailOutcomes :
    contact_form_route(c, data, mail)

Next ==
  \/ nreq < MaxReq /\ ContactRequest(Visitors, Bodies)
  \/ nreq < MaxReq /\ SubscriptionRequest(Visitors, Bodies)
  \/ nreq < MaxReq /\ ResumeRequest(Visitors, Bodies)
  \/ nreq < MaxReq /\ AppResumeRequest(Visitors, Bodies)
  \/ nreq < MaxReq /\ AppContactRequest(Visitors, Bodies)

Spec == Init /\ [][Next]_vars

\* Rate-limit traffic: client c1 loads one route up to and past its limits,
\* waiting out a window once it is exhausted, while the other clients send a
\* few requests of their own.  Every request is valid and its storage and
\* SMTP calls succeed, so an admitted request is seen in its side effects.
FullBody ==
  Json([name |-> NameA, email |-> EmailOne, message |-> MsgHi,
        subject |-> SubjS])

NeverHit(c, h) == hits[<<c, h, 1>>].expiry = 0

\* A client retries a rejected request once per window, not more.
Retried(c, h) ==
  \E i \in DOMAIN Limits(h) :
    /\ hits[<<c, h, i>>].expiry > now
    /\ hits[<<c, h, i>>].count > Limits(h)[i].amount

Traffic(c, h) ==
  /\ ~Retried(c, h)
  /\ IF c = "c1"
       THEN \A h2 \in Handlers \ {h} : NeverHit(c, h2)
       ELSE /\ NeverHit(c, h)
            /\ Cardinality({h2 \in Handlers : ~NeverHit(c, h2)}) < MaxOther

\* A window of length d is exhausted and still open for some client.
Exhausted(d) ==
  \E k \in LimitKeys :
    LET l == Limits(k[2])[k[3]] IN
    l.per = d /\ hits[k].expiry > now /\ hits[k].count >= l.amount

InitRL ==
  /\ Init
  /\ db_up
  /\ ~recipient_set

NextRL ==
  \/ \E c \in Clients :
       /\ nreq < MaxReqRL /\ Traffic(c, "handle_contact_form")
       /\ handle_contact_form(c, FullBody, "ok", "sent")
  \/ \E c \in Clients :
       /\ nreq < MaxReqRL /\ Traffic(c, "handle_subscription")
       /\ handle_subscription(c, FullBody, "ok", "ok")
  \/ \E c \in Clients :
       /\ nreq < MaxReqRL /\ Traffic(c, "handle_resume_request")
       /\ handle_resume_request(c, FullBody, "ok", "sent")
  \/ \E c \in Clients :
       /\ nreq < MaxReqRL /\ Traffic(c, "request_resume")
       /\ request_resume(c, FullBody, "ok", "sent")
  \/ \E c \in Clients :
       /\ nreq < MaxReqRL /\ Traffic(c, "contact_form")
       /\ contact_form_route(c, FullBody, "sent")
  \/ \E d \in {Minute, Hour, Day} :
       nticks < MaxTicksRL /\ Exhausted(d) /\ Tick(d)

SpecRL == InitRL /\ [][NextRL]_vars

\* Concurrent subscribes: each thread of the server handles one request; the
\* step to find_one and the step of insert_one interleave freely.
subscribe_find(t, c, data, find) ==
  /\ app = "package"
  /\ inflight[t].pc = "idle"
  /\ \E lim \in {HitLimits(hits, c, "handle_subscription", 1, now)} :
       /\ hits' = lim.hits
       /\ inflight' =
            [inflight EXCEPT ![t] =
               IF lim.ok THEN SubscriptionCheck(c, data, find)
               ELSE [Idle EXCEPT !.pc = "done", !.client = c,
                                 !.resp = RateLimited]]
  /\ nreq' = nreq + 1
  /\ UNCHANGED <<app, db_up, recipient_set, now, nticks, contact_form,
                 newsletter_subscribers, resume_requests, req, resp, events>>

subscribe_insert(t, ins) ==
  /\ inflight[t].pc = "insert"
  /\ inflight' = [inflight EXCEPT ![t] = SubscriptionInsert(@, ins)]
  /\ newsletter_subscribers' =
       IF ins = "raise" THEN newsletter_subscribers
       ELSE Append(newsletter_subscribers,
                   [email |-> inflight[t].data.d["email"], timestamp |-> now])
  /\ UNCHANGED <<app, db_up, recipient_set, now, nticks, hits, contact_form,
                 resume_requests, req, resp, events, nreq>>

ConcBodies ==
  {Json([x \in {"email"} |-> e]) : e \in {EmailNoAt, EmailOne, EmailTwo}}

InitConc ==
  /\ Init
  /\ app = "package"

NextConc ==
  \/ \E t \in Threads, c \in Visitors, data \in ConcBodies :
       \E find \in StoreFor(Reaches(SubscriptionErrors(data.d), data)) :
         subscribe_find(t, c, data, find)
  \/ \E t \in Threads, ins \in StoreOutcomes : subscribe_insert(t, ins)

SpecConc == InitConc /\ [][NextConc]_vars

\* ----------------------------------------------------------------- helpers
Handled == req.handler # "none"
HasEvent(e) == \E i \in DOMAIN events : events[i] = e
CountEvents(es) == Cardinality({i \in DOMAIN events : events[i] \in es})
EmailEvents == {"email_sent", "email_failed", "email_raised"}
ResumeHandlers == {"handle_resume_request", "request_resume"}
BodyRead == Handled /\ req.data # Unread
Last(coll) == coll[Len(coll)]

\* The required fields the interface table gives per endpoint.
Required(h) ==
  CASE h \in {"handle_contact_form", "contact_form"} ->
         {"name", "email", "message"}
    [] h = "handle_subscription" -> {"email"}
    [] h \in ResumeHandlers -> {"name", "email"}

\* ------------------------------------------------------------------ claims

\* C1 (as stated): every record of resume_requests carries email_status
\* "sent" or "failed", never "pending" and never none; a resume-request that
\* reached the insert after a failed send stored "failed" with a non-empty
\* email_error, and after a successful send stored "sent" with no email_error.
C1_StatusRecorded ==
  /\ \A i \in DOMAIN resume_requests :
       /\ "email_status" \in DOMAIN resume_requests[i]
       /\ resume_requests[i].email_status \in {"sent", "failed"}
  /\ (req.handler \in ResumeHandlers /\ HasEvent("insert")) =>
       LET r == Last(resume_requests) IN
       /\ HasEvent("email_failed") =>
            /\ r.email_status = "failed"
            /\ "email_error" \in DOMAIN r
            /\ r.email_error # <<>>
       /\ HasEvent("email_sent") =>
            /\ r.email_status = "sent"
            /\ "email_error" \notin DOMAIN r

\* C3 (as stated): with the db handle None, every request that the limiter
\* admits is answered 503, inserts nothing and sends no email.
C3_StorageDown503 ==
  (~db_up /\ Handled /\ resp # RateLimited) =>
     /\ resp.status = 503
     /\ events = <<>>
     /\ contact_form = <<>>
     /\ newsletter_subscribers = <<>>
     /\ resume_requests = <<>>

\* C4 (as stated): with storage available, a posted object in which a
\* required field of the endpoint is absent or empty is answered 400 with a
\* details entry for each such field, the empty object included.
C4_MissingFieldsInDetails ==
  (db_up /\ BodyRead /\ ~req.data.isNone
     /\ \E k \in Required(req.handler) : Falsy(req.data.d, k)) =>
       /\ resp.status = 400
       /\ \A k \in Required(req.handler) :
            Falsy(req.data.d, k) => k \in DOMAIN resp.details

\* C5 (as stated): a request whose JSON body is missing (get_json yields
\* None) is answered 400 with the missing-body error, reached without a
\* failure on field access; a non-empty object that lacks required fields
\* gets a different, field-level 400 instead.
MissingBodyErrors ==
  {"Missing JSON in request body", "Invalid JSON data in request."}
C5_MissingBodyDistinct ==
  /\ (BodyRead /\ req.data.isNone) =>
       resp.status = 400 /\ resp.error \in MissingBodyErrors
  /\ (BodyRead /\ ~NotData(req.data)
        /\ \E k \in Required(req.handler) : Falsy(req.data.d, k)) =>
       resp.status = 400 /\ resp.error \notin MissingBodyErrors

\* C7 (as stated): a contact submission whose message was inserted is
\* answered 201 with success = true whatever the notification step did
\* (sent, failed, skipped, raised), and the message stays inserted.
C7_ContactNotifyBestEffort ==
  (req.handler = "handle_contact_form" /\ HasEvent("insert")) =>
     /\ resp.status = 201
     /\ resp.success = "true"
     /\ contact_form # <<>>
     /\ Last(contact_form).email = req.data.d["email"]

\* C8 (as stated): every record of the three collections has a non-empty
\* email that passes the syntactic check.
C8_PersistedEmailsValid ==
  \A coll \in {contact_form, newsletter_subscribers, resume_requests} :
    \A i \in DOMAIN coll :
      coll[i].email # <<>> /\ IsValidEmail(coll[i].email)

\* C9 (as stated): within a resume-request there is at most one email
\* attempt and at most one insert, and the insert happens only after the
\* email attempt returned its outcome.
C9_EmailBeforeInsert ==
  req.handler \in ResumeHandlers =>
     /\ CountEvents(EmailEvents) <= 1
     /\ CountEvents({"insert", "insert_failed"}) <= 1
     /\ \A j \in DOMAIN events :
          events[j] \in {"insert", "insert_failed"} =>
            \E i \in 1..(j - 1) : events[i] \in {"email_sent", "email_failed"}

\* C2: the email of every record of newsletter_subscribers is unique, and a
\* valid subscribe that the limiter admits and whose storage calls succeed
\* answers 201 and appends one record when no record has its email, and
\* answers 200 and leaves the collection alone when one has.
AtMostOnePerEmail ==
  \A i, j \in DOMAIN newsletter_subscribers :
    newsletter_subscribers[i].email = newsletter_subscribers[j].email => i = j

C2_Step ==
  (/\ nreq' = nreq + 1
   /\ req'.handler = "handle_subscription"
   /\ db_up
   /\ req'.data # Unread
   /\ ~NotData(req'.data)
   /\ ~Falsy(req'.data.d, "email")
   /\ IsValidEmail(req'.data.d["email"])
   /\ \A i \in DOMAIN events' :
        events'[i] \notin {"find_failed", "insert_failed"}) =>
     LET e == req'.data.d["email"]
         known == \E i \in DOMAIN newsletter_subscribers :
                     newsletter_subscribers[i].email = e
     IN IF known
          THEN /\ resp'.status = 200
               /\ newsletter_subscribers' = newsletter_subscribers
          ELSE /\ resp'.status = 201
               /\ Len(newsletter_subscribers') =
                    Len(newsletter_subscribers) + 1
               /\ SubSeq(newsletter_subscribers', 1,
                         Len(newsletter_subscribers)) = newsletter_subscribers
               /\ Last(newsletter_subscribers').email = e

\* C2: both parts together, the invariant and the step property.
C2_SubscribeIdempotent == []AtMostOnePerEmail /\ [][C2_Step]_vars

\* C2 witness: the same email was subscribed twice; the second answer is
\* 200 and one record is stored.
C2_Witness ==
  /\ req.handler = "handle_subscription"
  /\ resp.status = 200
  /\ events = <<"find">>
  /\ Len(newsletter_subscribers) = 1
  /\ newsletter_subscribers[1].email = req.data.d["email"]

\* A resume-request that passed validation with storage available.
ResumeValidated ==
  /\ req.handler \in ResumeHandlers
  /\ db_up
  /\ BodyRead
  /\ ~NotData(req.data)
  /\ ~Falsy(req.data.d, "name")
  /\ ~Falsy(req.data.d, "email")
  /\ req.handler = "handle_resume_request" => IsValidEmail(req.data.d["email"])

ResumeSaved ==
  /\ HasEvent("insert")
  /\ resume_requests # <<>>
  /\ Last(resume_requests).name = req.data.d["name"]
  /\ Last(resume_requests).email = req.data.d["email"]
  /\ Last(resume_requests).timestamp = now

ExactlyOne(a, b, c) ==
  (a \/ b \/ c) /\ ~(a /\ b) /\ ~(a /\ c) /\ ~(b /\ c)

RespSuccess == resp.status = 200
RespPartial ==
  \/ resp.status = 202
  \/ resp.status = 500 /\ resp.success = "false"
RespError ==
  resp.status = 500 /\ resp.success = "absent" /\ resp.error # "absent"

WindowCount(c, h, i) ==
  IF hits[<<c, h, i>>].expiry > now THEN hits[<<c, h, i>>].count ELSE 0

RequestStep == nreq' = nreq + 1

CollectionsUnchanged ==
  UNCHANGED <<contact_form, newsletter_subscribers, resume_requests>>

Rejected429 ==
  /\ resp' = RateLimited
  /\ resp'.status = 429
  /\ events' = <<>>
  /\ req'.data = Unread
  /\ CollectionsUnchanged

\* C6 (as stated): under the policies contact 10/hour, subscribe 20/hour and
\* request-resume 5/hour and 20/day, a request is admitted while its client's
\* count within the window is under the policy and rejected with 429 only
\* then.  (request_resume of app.py keeps one counter, over a day: a day
\* count under 5 puts a request under both limits claimed for it.)
ClaimedUnder(c, h) ==
  CASE h = "handle_contact_form" -> WindowCount(c, h, 2) < 10
    [] h = "contact_form" -> WindowCount(c, h, 1) < 10
    [] h = "handle_subscription" -> WindowCount(c, h, 1) < 20
    [] h = "handle_resume_request" ->
         WindowCount(c, h, 1) < 5 /\ WindowCount(c, h, 2) < 20
    [] h = "request_resume" -> WindowCount(c, h, 1) < 5

Policy(h) ==
  CASE h = "handle_contact_form" ->
         <<[amount |-> 1, per |-> 60], [amount |-> 10, per |-> 3600]>>
    [] h = "handle_subscription" -> <<[amount |-> 20, per |-> 3600]>>
    [] h = "handle_resume_request" ->
         <<[amount |-> 5, per |-> 3600], [amount |-> 20, per |-> 86400]>>
    [] h = "request_resume" -> <<[amount |-> 5, per |-> 86400]>>
    [] h = "contact_form" -> <<[amount |-> 10, per |-> 3600]>>

Under(c, h) ==
  \A i \in DOMAIN Policy(h) : WindowCount(c, h, i) < Policy(h)[i].amount

C6_Step ==
  RequestStep =>
    LET c == req'.client
        h == req'.handler
    IN /\ Under(c, h) <=> resp' # RateLimited
       /\ ~Under(c, h) => Rejected429
       /\ Under(c, h) => events' # <<>> /\ req'.data = FullBody
       /\ \A i \in DOMAIN Policy(h) :
            \* a window opened by this request closes one period from now
            WindowCount(c, h, i) = 0 =>
              hits'[<<c, h, i>>] = [count |-> 1, expiry |-> now + Policy(h)[i].per]
       /\ \A k \in LimitKeys :
            (k[1] # c \/ k[2] # h) => hits'[k] = hits[k]

AskedEmail(t) ==
  IF inflight[t].pc # "idle" /\ inflight[t].data # Unread
       /\ ~NotData(inflight[t].data) /\ "email" \in DOMAIN inflight[t].data.d
    THEN inflight[t].data.d["email"]
    ELSE <<>>

RecordsOf(e) ==
  {i \in DOMAIN newsletter_subscribers : newsletter_subscribers[i].email = e}

InsertedBy(e) ==
  {t \in Threads :
     /\ AskedEmail(t) = e
     /\ \E i \in DOMAIN inflight[t].events : inflight[t].events[i] = "insert"}

\* C11: however the find_one and insert_one steps of concurrent subscribes
\* interleave, an email has exactly as many records as requests for it that
\* inserted, hence never more than there were requests for it; and a request
\* whose find_one observed an existing record never inserts and answers 200.
C11_RaceBounded ==
  /\ \A e \in {EmailNoAt, EmailOne, EmailTwo} :
       /\ Cardinality(RecordsOf(e)) = Cardinality(InsertedBy(e))
       /\ Cardinality(RecordsOf(e)) <=
            Cardinality({t \in Threads : AskedEmail(t) = e})
  /\ \A t \in Threads :
       inflight[t].found =>
         /\ inflight[t].pc = "done"
         /\ inflight[t].events = <<"find">>
         /\ inflight[t].resp.status = 200

\* C11 witness: two requests for one email both passed the duplicate check,
\* both inserted and both answered 201; the email has two records.
C11_Witness ==
  \E t1, t2 \in Threads :
    /\ t1 # t2
    /\ AskedEmail(t1) = AskedEmail(t2)
    /\ \A t \in {t1, t2} :
         /\ inflight[t].resp.status = 201
         /\ inflight[t].events = <<"find", "insert">>
         /\ ~inflight[t].found
    /\ Cardinality(RecordsOf(AskedEmail(t1))) = 2

====
